---- MODULE Spec2Model ----
(***************************************************************************)
(* VarScanner: the variant annotation service of src/src/main.py.          *)
(* src/main.py is the earlier version of the same module: the same         *)
(* variant_key, health and loop, without the annotation store.             *)
(*                                                                         *)
(* Python strings are sequences of one-character strings, so that the key  *)
(* derivation works on characters: "1:2" is <<"1", ":", "2">>.  A JSON      *)
(* value is a record [t, s, n]: its type tag, its string payload and its   *)
(* numeric payload (gnomad_af is kept in thousandths: 1 is 0.001).         *)
(***************************************************************************)
EXTENDS Integers, Sequences, FiniteSets, TLC

VARIABLES
  resource,    \* what ../data/stubs/annot.json holds when the module is imported
  phase,       \* "starting" | "ready" | "crashed": the process around the import
  STUB_ANNOT,  \* the module-level store (main.py:73)
  workers,     \* one record per request-handling thread
  nreq,        \* /predict requests accepted so far
  lastHealth,  \* the body of the last /health response
  kin,         \* key derivation alone: the two variants given
  kout         \* key derivation alone: their keys

vars == <<resource, phase, STUB_ANNOT, workers, nreq, lastHealth, kin, kout>>

svcVars == <<resource, phase, STUB_ANNOT, workers, nreq, lastHealth>>

keyVars == <<kin, kout>>

-----------------------------------------------------------------------------
(* Bounds *)

MaxBatch == 2

MaxRequests == 2

MaxPos == 10

Workers == {"t1", "t2"}

-----------------------------------------------------------------------------
(* JSON values *)

JStr(s) == [t |-> "str", s |-> s, n |-> 0]

JNum(n) == [t |-> "num", s |-> <<>>, n |-> n]

JNull == [t |-> "null", s |-> <<>>, n |-> 0]

\* VariantResult's five Optional fields (main.py:51-55), in declaration order.
AnnotFields == <<"gene", "consequence", "gnomad_af", "rsid", "clinvar">>

AnnotFieldSet == {AnnotFields[j] : j \in 1..Len(AnnotFields)}

-----------------------------------------------------------------------------
(* variant_key *)

Digit == <<"0", "1", "2", "3", "4", "5", "6", "7", "8", "9">>

RECURSIVE Digits(_)
\* The decimal digits of n >= 0, most significant first.
Digits(n) == IF n < 10 THEN <<Digit[n + 1]>>
             ELSE Digits(n \div 10) \o <<Digit[(n % 10) + 1]>>

\* A plausible slip: the digits come out least significant first.
RECURSIVE DigitsReversed(_)
DigitsReversed(n) == IF n < 10 THEN <<Digit[n + 1]>>
                     ELSE <<Digit[(n % 10) + 1]>> \o DigitsReversed(n \div 10)

str_reversed(n) == IF n < 0 THEN <<"-">> \o DigitsReversed(0 - n) ELSE DigitsReversed(n)

\* Python's str() of an int.
str(n) == IF n < 0 THEN <<"-">> \o Digits(0 - n) ELSE Digits(n)

\* A plausible slip: the alternate allele is left out of the key.
variant_key_no_alt(v) == v.chrom \o <<":">> \o str(v.pos) \o <<":">> \o v.ref \o <<">">>

\* f"{v.chrom}:{str(v.pos)}:{v.ref}>{v.alt}"
variant_key(v) == v.chrom \o <<":">> \o str(v.pos) \o <<":">> \o v.ref \o <<">">> \o v.alt

-----------------------------------------------------------------------------
(* Key derivation alone: two variants are given and their keys derived.    *)
(* VariantIn (main.py:19-29) puts no constraint on the three strings and   *)
(* none on the sign of pos, so the inputs include ":" and ">" inside the   *)
(* strings and a negative position.                                        *)

KeyChroms == {<<"1">>, <<"X">>, <<"1", ":", "2">>}

KeyRefs == {<<"A">>, <<"3", ":", "A">>, <<"A", ">">>}

KeyAlts == {<<"T">>, <<">", "T">>}

Positions == -1..MaxPos

KeyVariants == [chrom : KeyChroms, pos : Positions, ref : KeyRefs, alt : KeyAlts]

NoStore == [t |-> "none", m |-> <<>>]

NoBody == [variants |-> <<>>]

NoRequest == [genome_build |-> <<>>, variants |-> <<>>]

NoResponse == [genome_build |-> <<>>, results |-> <<>>]

IdleWorker == [st |-> "idle", body |-> NoBody, req |-> NoRequest, i |-> 0,
               results |-> <<>>, resp |-> NoResponse]

NoHealth == [sent |-> FALSE, ok |-> FALSE]

ServiceNotStarted ==
  /\ resource = [file |-> "missing", json |-> NoStore]
  /\ phase = "starting"
  /\ STUB_ANNOT = NoStore
  /\ workers = [w \in Workers |-> IdleWorker]
  /\ nreq = 0
  /\ lastHealth = NoHealth

InitKey ==
  /\ ServiceNotStarted
  /\ kin \in KeyVariants \X KeyVariants
  /\ kout = <<>>

DeriveKeys ==
  /\ kin # <<>>
  /\ kout = <<>>
  /\ kout' = <<variant_key(kin[1]), variant_key(kin[2])>>
  /\ UNCHANGED <<kin, svcVars>>

NextKey == DeriveKeys

SpecKey == InitKey /\ [][NextKey]_vars

-----------------------------------------------------------------------------
(* Reading a decimal numeral back, to state what str() must produce. *)

DigitValue(c) == CHOOSE d \in 0..9 : Digit[d + 1] = c

IsDigit(c) == \E d \in 0..9 : Digit[d + 1] = c

RECURSIVE NumeralValue(_)
NumeralValue(ds) == IF ds = <<>> THEN 0
                    ELSE 10 * NumeralValue(SubSeq(ds, 1, Len(ds) - 1)) + DigitValue(ds[Len(ds)])

\* ds is the decimal numeral of n >= 0: digits only, no leading zero, value n.
IsNumeralOf(ds, n) ==
  /\ Len(ds) >= 1
  /\ \A j \in 1..Len(ds) : IsDigit(ds[j])
  /\ (Len(ds) > 1 => ds[1] # "0")
  /\ NumeralValue(ds) = n

\* ds is the decimal rendering of the integer n, "-" first when n < 0.
IsDecimalOf(ds, n) ==
  IF n < 0 THEN Len(ds) >= 2 /\ ds[1] = "-" /\ IsNumeralOf(Tail(ds), 0 - n)
  ELSE IsNumeralOf(ds, n)

\* k is v.chrom, ":", the decimal rendering of v.pos, ":", v.ref, ">", v.alt.
KeyHasTheFormat(k, v) ==
  LET c == Len(v.chrom)
      r == Len(v.ref)
      a == Len(v.alt)
      d == Len(k) - c - r - a - 3
  IN /\ d >= 1
     /\ SubSeq(k, 1, c) = v.chrom
     /\ k[c + 1] = ":"
     /\ IsDecimalOf(SubSeq(k, c + 2, c + 1 + d), v.pos)
     /\ k[c + d + 2] = ":"
     /\ SubSeq(k, c + d + 3, c + d + 2 + r) = v.ref
     /\ k[c + d + r + 3] = ">"
     /\ SubSeq(k, c + d + r + 4, Len(k)) = v.alt

\* C5: the key of every valid variant is chrom, ":", the decimal rendering of
\* pos, ":", ref, ">", alt, in that order, and a key is derived for every input.
C5_KeyFormat ==
  kout # <<>> => /\ Len(kout) = 2
                 /\ KeyHasTheFormat(kout[1], kin[1])
                 /\ KeyHasTheFormat(kout[2], kin[2])

C5_Witness ==
  /\ kout # <<>>
  /\ kin[1].pos >= 10
  /\ kin[2].pos < 0
  /\ kout[1] = <<"1", ":", "2", ":", "1", "0", ":", "3", ":", "A", ">", ">", "T">>

Has(s, c) == \E j \in 1..Len(s) : s[j] = c

\* chrom holds no ":" and ref holds no ">": the key then splits back uniquely.
Delimited(v) == ~Has(v.chrom, ":") /\ ~Has(v.ref, ">")

\* C10 as claimed: two variants that differ in a field have different keys.
C10_Injective ==
  (kout # <<>> /\ kin[1] # kin[2]) => kout[1] # kout[2]

\* C10 amended: two variants that differ in a field have different keys when
\* neither chrom holds a ":" and neither ref holds a ">".
C10_InjectiveWhenDelimited ==
  (kout # <<>> /\ kin[1] # kin[2] /\ Delimited(kin[1]) /\ Delimited(kin[2]))
    => kout[1] # kout[2]

C10_Witness ==
  /\ kout # <<>>
  /\ Delimited(kin[1]) /\ Delimited(kin[2])
  /\ kin[1].ref = <<"3", ":", "A">>
  /\ kin[2] = [kin[1] EXCEPT !.alt = <<">", "T">>]
  /\ kin[1].alt = <<"T">>
  /\ kout[1] # kout[2]

-----------------------------------------------------------------------------
(* The annotation file.  Its keys are written out as the file holds them,  *)
(* not derived with variant_key.                                           *)

KeyA == <<"1", ":", "1", "2", "3", "4", "5", ":", "A", ">", "T">>

KeyB == <<"X", ":", "7", ":", "G", ">", "G", "A">>

\* Every field present with a value.
RecFull == [gene |-> JStr(<<"B", "R", "C", "A", "1">>),
            consequence |-> JStr(<<"m", "i", "s", "s", "e", "n", "s", "e">>),
            gnomad_af |-> JNum(1),
            rsid |-> JStr(<<"r", "s", "1", "2", "3">>),
            clinvar |-> JStr(<<"P", "a", "t", "h", "o", "g", "e", "n", "i", "c">>)]

\* Every field present, three of them null.
RecSparse == [gene |-> JStr(<<"T", "P", "5", "3">>),
              consequence |-> JNull,
              gnomad_af |-> JNull,
              rsid |-> JStr(<<"r", "s", "9">>),
              clinvar |-> JNull]

\* Three fields left out of the object.
RecPartial == [gene |-> JStr(<<"T", "P", "5", "3">>),
               consequence |-> JStr(<<"i", "n", "t", "r", "o", "n">>)]

\* The files modelled hold KeyA with RecFull or RecPartial or not at all, and
\* KeyB with RecSparse or not at all.
RecordsAt(k) == IF k = KeyA THEN {RecFull, RecPartial} ELSE {RecSparse}

ObjectFiles ==
  UNION {{m \in [ks -> {RecFull, RecSparse, RecPartial}] : \A k \in ks : m[k] \in RecordsAt(k)}
           : ks \in SUBSET {KeyA, KeyB}}

Resources ==
  {[file |-> "missing", json |-> NoStore], [file |-> "unparsable", json |-> NoStore]}
  \cup {[file |-> "json", json |-> [t |-> "array", m |-> <<>>]]}
  \cup {[file |-> "json", json |-> [t |-> "object", m |-> m]] : m \in ObjectFiles}

-----------------------------------------------------------------------------
(* Request bodies *)

JInt(n) == [t |-> "int", s |-> <<>>, n |-> n]

VarA == [chrom |-> <<"1">>, pos |-> 12345, ref |-> <<"A">>, alt |-> <<"T">>]

VarB == [chrom |-> <<"X">>, pos |-> 7, ref |-> <<"G">>, alt |-> <<"G", "A">>]

Raw(v) == [chrom |-> JStr(v.chrom), pos |-> JInt(v.pos), ref |-> JStr(v.ref), alt |-> JStr(v.alt)]

Builds == {<<"G", "R", "C", "h", "3", "8">>, <<"n", "o", "-", "b", "u", "i", "l", "d">>}

Batches == UNION {[1..n -> {Raw(VarA), Raw(VarB)}] : n \in 0..MaxBatch}

ValidBodies == {[genome_build |-> JStr(b), variants |-> vs] : b \in Builds, vs \in Batches}

InvalidBodies ==
  { \* genome_build is missing
    [variants |-> <<Raw(VarA)>>],
    \* pos is a string that is no number
    [genome_build |-> JStr(<<"G", "R", "C", "h", "3", "8">>),
     variants |-> <<[Raw(VarA) EXCEPT !.pos = JStr(<<"a", "b">>)]>>],
    \* the second variant has no alt
    [genome_build |-> JStr(<<"G", "R", "C", "h", "3", "8">>),
     variants |-> <<Raw(VarA), [chrom |-> JStr(<<"X">>), pos |-> JInt(7), ref |-> JStr(<<"G">>)]>>] }

Bodies == ValidBodies \cup InvalidBodies

\* VariantIn: chrom: str, pos: int, ref: str, alt: str, all required.
ValidVariantIn(rv) ==
  /\ {"chrom", "pos", "ref", "alt"} \subseteq DOMAIN rv
  /\ rv.chrom.t = "str"
  /\ rv.pos.t = "int"
  /\ rv.ref.t = "str"
  /\ rv.alt.t = "str"

\* PredictRequest: genome_build: str, variants: List[VariantIn], both required.
ValidPredictRequest(body) ==
  /\ {"genome_build", "variants"} \subseteq DOMAIN body
  /\ body.genome_build.t = "str"
  /\ \A j \in 1..Len(body.variants) : ValidVariantIn(body.variants[j])

VariantIn(rv) == [chrom |-> rv.chrom.s, pos |-> rv.pos.n, ref |-> rv.ref.s, alt |-> rv.alt.s]

PredictRequest(body) ==
  [genome_build |-> body.genome_build.s,
   variants |-> [j \in 1..Len(body.variants) |-> VariantIn(body.variants[j])]]

-----------------------------------------------------------------------------
(* predict *)

\* A plausible slip: a placeholder gene instead of None.
DefaultAnnot_placeholder ==
  [f \in AnnotFieldSet |-> IF f = "gene" THEN JStr(<<"?">>) ELSE JNull]

\* The default of STUB_ANNOT.get: every field None.
DefaultAnnot == [f \in AnnotFieldSet |-> JNull]

\* dict.get(key, default)
dict_get(d, key, default) == IF key \in DOMAIN d THEN d[key] ELSE default

\* A plausible slip: setdefault, which stores the default on a miss.
StoreAfterGet_setdefault(store, key) ==
  IF key \in DOMAIN store.m THEN store
  ELSE [store EXCEPT !.m = [k \in DOMAIN store.m \cup {key} |->
                              IF k = key THEN DefaultAnnot ELSE store.m[k]]]

\* A plausible slip: pop, which removes the record it returns.
StoreAfterGet_pop(store, key) ==
  [store EXCEPT !.m = [k \in DOMAIN store.m \ {key} |-> store.m[k]]]

\* The store after STUB_ANNOT.get(key, default): get changes nothing.
StoreAfterGet(store, key) == store

\* A plausible slip: rsid and clinvar change places.
VariantResult_swapped(key, v, annot) ==
  [variant |-> key, echo |-> v, gene |-> annot["gene"],
   consequence |-> annot["consequence"], gnomad_af |-> annot["gnomad_af"],
   rsid |-> annot["clinvar"], clinvar |-> annot["rsid"]]

\* VariantResult(variant=key, echo=v, gene=annot["gene"], ...).  The values of
\* the files modelled are of the declared types, which validation keeps as
\* they are.
VariantResult(key, v, annot) ==
  [variant |-> key, echo |-> v, gene |-> annot["gene"],
   consequence |-> annot["consequence"], gnomad_af |-> annot["gnomad_af"],
   rsid |-> annot["rsid"], clinvar |-> annot["clinvar"]]

\* A plausible slip: a result already in the list is not added again.
append_unique(results, r) ==
  IF \E j \in 1..Len(results) : results[j] = r THEN results ELSE Append(results, r)

\* results.append(result)
append(results, r) == Append(results, r)

\* A plausible slip: the build is written into the response as a constant.
PredictResponse_fixed(genome_build, results) ==
  [genome_build |-> <<"G", "R", "C", "h", "3", "8">>, results |-> results]

\* PredictResponse(genome_build = req.genome_build, results = results)
PredictResponse(genome_build, results) ==
  [genome_build |-> genome_build, results |-> results]

\* A plausible slip: a failed load is swallowed and the service starts anyway.
Loads_swallowed(res) == TRUE

\* STUB_PATH.read_text() raises when the file is missing and json.loads when
\* its text is no JSON; any JSON value is accepted.
Loads(res) == res.file = "json"

-----------------------------------------------------------------------------
(* The service *)

Init ==
  /\ resource \in Resources
  /\ phase = "starting"
  /\ STUB_ANNOT = NoStore
  /\ workers = [w \in Workers |-> IdleWorker]
  /\ nreq = 0
  /\ lastHealth = NoHealth
  /\ kin = <<>>
  /\ kout = <<>>

\* The import of the module: the file is read and parsed once, and the
\* application is served only if the import completes.
LoadStore ==
  /\ phase = "starting"
  /\ \/ /\ Loads(resource)
        /\ STUB_ANNOT' = resource.json
        /\ phase' = "ready"
     \/ /\ ~Loads(resource)
        /\ phase' = "crashed"
        /\ UNCHANGED STUB_ANNOT
  /\ UNCHANGED <<resource, workers, nreq, lastHealth, keyVars>>

\* GET /health
health ==
  /\ phase = "ready"
  /\ lastHealth' = [sent |-> TRUE, ok |-> TRUE]
  /\ UNCHANGED <<resource, phase, STUB_ANNOT, workers, nreq, keyVars>>

\* POST /predict arrives at a thread that is not inside predict: the body is
\* validated against PredictRequest before predict is called, and a body that
\* fails is answered 422.  The thread's last answer stays on record until then.
Receive(w, body) ==
  /\ phase = "ready"
  /\ nreq < MaxRequests
  /\ workers[w].st # "running"
  /\ nreq' = nreq + 1
  /\ \/ /\ ~ValidPredictRequest(body)
        /\ workers' = [workers EXCEPT ![w] = [IdleWorker EXCEPT !.st = "rejected422",
                                                                !.body = body]]
     \/ /\ ValidPredictRequest(body)
        /\ workers' = [workers EXCEPT ![w] = [IdleWorker EXCEPT !.st = "running",
                                                                !.body = body,
                                                                !.req = PredictRequest(body)]]
  /\ UNCHANGED <<resource, phase, STUB_ANNOT, lastHealth, keyVars>>

\* One pass of "for v in req.variants".  An exception that leaves predict is
\* answered 500.
PredictStep(w) ==
  LET me == workers[w]
      v == me.req.variants[me.i + 1]
      key == variant_key(v)
  IN /\ me.st = "running"
     /\ me.i < Len(me.req.variants)
     /\ \/ \* a JSON array has no get: AttributeError
           /\ STUB_ANNOT.t # "object"
           /\ workers' = [workers EXCEPT ![w].st = "error500"]
           /\ UNCHANGED STUB_ANNOT
        \/ /\ STUB_ANNOT.t = "object"
           /\ STUB_ANNOT' = StoreAfterGet(STUB_ANNOT, key)
           /\ LET annot == dict_get(STUB_ANNOT.m, key, DefaultAnnot)
              IN \/ \* annot["..."] of a field the record leaves out: KeyError
                    /\ ~(AnnotFieldSet \subseteq DOMAIN annot)
                    /\ workers' = [workers EXCEPT ![w].st = "error500"]
                 \/ /\ AnnotFieldSet \subseteq DOMAIN annot
                    /\ workers' = [workers EXCEPT
                         ![w].results = append(me.results, VariantResult(key, v, annot)),
                         ![w].i = me.i + 1]
     /\ UNCHANGED <<resource, phase, nreq, lastHealth, keyVars>>

\* The loop is over: return PredictResponse(...), answered 200.
Respond(w) ==
  LET me == workers[w]
  IN /\ me.st = "running"
     /\ me.i >= Len(me.req.variants)
     /\ workers' = [workers EXCEPT
          ![w].st = "ok200",
          ![w].resp = PredictResponse(me.req.genome_build, me.results)]
     /\ UNCHANGED <<resource, phase, STUB_ANNOT, nreq, lastHealth, keyVars>>

Answered(w) == workers[w].st \in {"ok200", "rejected422", "error500"}

Next ==
  \/ LoadStore
  \/ health
  \/ \E w \in Workers, body \in Bodies : Receive(w, body)
  \/ \E w \in Workers : PredictStep(w)
  \/ \E w \in Workers : Respond(w)

Spec == Init /\ [][Next]_vars

-----------------------------------------------------------------------------
(* Properties of the service *)

\* The file parsed to a JSON object: a mapping from keys to records.
FileIsObject == resource.file = "json" /\ resource.json.t = "object"

\* The results a thread holds: those of the response once it has answered
\* 200, those gathered so far while it is inside the loop.
ResultsOf(w) ==
  IF workers[w].st = "ok200" THEN workers[w].resp.results ELSE workers[w].results

Resolving(w) == workers[w].st \in {"running", "ok200"}

BatchOf(w) == workers[w].body.variants

\* C1: a response has one result per variant of the request, in the request's
\* order, results[i] echoing variants[i] and carrying its key; no variant is
\* skipped or merged with an equal one while the batch is resolved.
C1_OneResultPerVariant ==
  \A w \in Workers :
    /\ workers[w].st = "ok200" => Len(workers[w].resp.results) = Len(BatchOf(w))
    /\ workers[w].st = "running" => Len(workers[w].results) = workers[w].i
    /\ Resolving(w) =>
         /\ Len(ResultsOf(w)) <= Len(BatchOf(w))
         /\ \A j \in 1..Len(ResultsOf(w)) :
              /\ ResultsOf(w)[j].echo = VariantIn(BatchOf(w)[j])
              /\ ResultsOf(w)[j].variant = variant_key(VariantIn(BatchOf(w)[j]))

C1_Witness ==
  \E w \in Workers :
    /\ workers[w].st = "ok200"
    /\ BatchOf(w) = <<Raw(VarA), Raw(VarA)>>
    /\ Len(workers[w].resp.results) = 2
    /\ workers[w].resp.results[1] = workers[w].resp.results[2]

\* C2: a result whose key is in the annotation file has its five annotation
\* fields equal to the fields of the record the file holds under that key.
C2_HitFields ==
  \A w \in Workers :
    (Resolving(w) /\ FileIsObject) =>
      \A j \in 1..Len(ResultsOf(w)) :
        LET r == ResultsOf(w)[j]
        IN r.variant \in DOMAIN resource.json.m =>
             /\ AnnotFieldSet \subseteq DOMAIN resource.json.m[r.variant]
             /\ \A f \in AnnotFieldSet : r[f] = resource.json.m[r.variant][f]

C2_Witness ==
  \E w \in Workers :
    /\ workers[w].st = "ok200"
    /\ BatchOf(w) = <<Raw(VarB), Raw(VarA)>>
    /\ workers[w].resp.results[1].rsid = JStr(<<"r", "s", "9">>)
    /\ workers[w].resp.results[1].clinvar = JNull
    /\ workers[w].resp.results[2].gnomad_af = JNum(1)
    /\ workers[w].resp.results[2].clinvar = RecFull.clinvar

\* C3: a result whose key is not in the annotation file is still produced and
\* has all five annotation fields null; a request that ends in an error was
\* not resolving a miss when it did.
C3_MissFields ==
  \A w \in Workers :
    FileIsObject =>
      /\ Resolving(w) =>
           \A j \in 1..Len(ResultsOf(w)) :
             ResultsOf(w)[j].variant \notin DOMAIN resource.json.m =>
               \A f \in AnnotFieldSet : ResultsOf(w)[j][f] = JNull
      /\ workers[w].st = "error500" =>
           variant_key(workers[w].req.variants[workers[w].i + 1]) \in DOMAIN resource.json.m

C3_Witness ==
  \E w \in Workers :
    /\ workers[w].st = "ok200"
    /\ KeyA \notin DOMAIN resource.json.m
    /\ KeyB \in DOMAIN resource.json.m
    /\ BatchOf(w) = <<Raw(VarA), Raw(VarB)>>
    /\ workers[w].resp.results[1].variant = KeyA
    /\ workers[w].resp.results[1].gene = JNull
    /\ workers[w].resp.results[2].gene # JNull

\* C4: with an annotation file that maps keys to annotation records, each of
\* the five fields present or absent, no request fails once it has passed
\* validation.
C4_NoFailureAfterValidation ==
  FileIsObject => \A w \in Workers : workers[w].st # "error500"

\* C6: the response carries the request's genome_build as it was given, and
\* only a body that fails the schema is rejected.
C6_BuildPassesThrough ==
  \A w \in Workers :
    /\ workers[w].st = "ok200" => workers[w].resp.genome_build = workers[w].body.genome_build.s
    /\ workers[w].st = "rejected422" => workers[w].body \in InvalidBodies

C6_Witness ==
  \E w \in Workers :
    /\ workers[w].st = "ok200"
    /\ workers[w].body.genome_build = JStr(<<"n", "o", "-", "b", "u", "i", "l", "d">>)
    /\ workers[w].resp.genome_build = <<"n", "o", "-", "b", "u", "i", "l", "d">>

C8_StoreReadOnly ==
  phase = "ready" => STUB_ANNOT = resource.json

C8_Witness ==
  /\ phase = "ready"
  /\ nreq = 2
  /\ STUB_ANNOT.t = "object"
  /\ KeyA \in DOMAIN STUB_ANNOT.m
  /\ KeyB \notin DOMAIN STUB_ANNOT.m
  /\ workers["t1"].st = "ok200"
  /\ BatchOf("t1") = <<Raw(VarB), Raw(VarB)>>
  /\ workers["t2"].st = "ok200"
  /\ BatchOf("t2") = <<>>

\* A request has been accepted or answered.
Served ==
  \/ nreq > 0
  \/ lastHealth.sent
  \/ \E w \in Workers : workers[w] # IdleWorker

\* C9 as claimed: a file that is missing, or is not a well-formed mapping from
\* keys to annotation objects, keeps the service from ever becoming ready or
\* serving a request.
C9_MalformedNeverServes ==
  ~FileIsObject => (phase # "ready" /\ ~Served)

\* C9 amended: a file that is missing, or whose text is not JSON, keeps the
\* service from ever becoming ready or serving a request; and every request
\* that is served is served after the load has completed.
C9_UnreadableNeverServes ==
  /\ resource.file \in {"missing", "unparsable"} => (phase # "ready" /\ ~Served)
  /\ Served => (phase = "ready" /\ STUB_ANNOT = resource.json /\ resource.file = "json")

C9_Witness ==
  /\ phase = "crashed"
  /\ resource.file = "unparsable"
  /\ STUB_ANNOT = NoStore

====
